---- MODULE Spec2Model ----
(***************************************************************************)
(* Model of src/src/index.ts: the poll loop pollSporeApi, the latch        *)
(* `done`, the swap executor buyTokenWithJupiter and handleTxConfirmation. *)
(*                                                                         *)
(* The runtime is the single-threaded Node event loop.  Every action is    *)
(* one run-to-completion job: the code from one suspension point (await,   *)
(* timer) up to the next.  Pending promises and timers are the state.      *)
(***************************************************************************)
EXTENDS Integers, Sequences, FiniteSets, TLC

\* ------------------------------------------------------------------ bounds
MaxStrLen == 2        \* longest tokenAddress drawn for a feed entity
MaxAgents == 2        \* most entities in one feed snapshot

\* ------------------------------------------------------- program constants
POLL_INTERVAL_MS == 100
AGENT_ABEL_ID == 6
AGENT_TRINITY_ID == 7

\* ----------------------------------------------------------------- strings
\* A string is a sequence of characters; " " stands for white space and
\* "A" for any other character.
Chars == {" ", "A"}

IsSpace(c) == c = " "

Strings == UNION {[1..n -> Chars] : n \in 0..MaxStrLen}

\* An optional string: a value of type `string | undefined`.
Undefined == [present |-> FALSE, str |-> <<>>]

Some(s) == [present |-> TRUE, str |-> s]

OptStrings == {Undefined} \cup {Some(s) : s \in Strings}

RECURSIVE TrimStart(_)
TrimStart(s) ==
  IF s # <<>> /\ IsSpace(Head(s)) THEN TrimStart(Tail(s)) ELSE s

RECURSIVE TrimEnd(_)
TrimEnd(s) ==
  IF s # <<>> /\ IsSpace(s[Len(s)]) THEN TrimEnd(SubSeq(s, 1, Len(s) - 1)) ELSE s

\* Variant of Trim: String.prototype.trimStart in its place.
TrimLeadingOnly(s) == TrimStart(s)

\* String.prototype.trim
Trim(s) == TrimEnd(TrimStart(s))

\* ------------------------------------------------------------------- feed
\* The ids of the two targets.
TargetIds == {AGENT_ABEL_ID, AGENT_TRINITY_ID}

\* The id of an entity that is no target.
OtherId == AGENT_ABEL_ID - 1

\* interface Agent, reduced to the two fields the program reads.  The
\* tokenAddress of an entity that is no target is never read: such an entity
\* is drawn with no tokenAddress or with one non-blank tokenAddress.
Agent ==
  [id : TargetIds, tokenAddress : OptStrings]
    \cup [id : {OtherId}, tokenAddress : {Undefined, Some(<<"A">>)}]

\* data[1].result.data.json of a well-formed response.
Snapshots == UNION {[1..n -> Agent] : n \in 0..MaxAgents}

\* The body of a feed response: JSON of the expected shape with an agent
\* list, or anything resp.json() or lines 185-190 fail on.  NoBody when no
\* response is being parsed.
NoBody == [kind |-> "none", agents |-> <<>>]

Malformed == [kind |-> "malformed", agents |-> <<>>]

Json(as) == [kind |-> "json", agents |-> as]

Bodies == {Malformed} \cup {Json(as) : as \in Snapshots}

\* Array.prototype.find with the predicate agent.id === id: the index of the
\* first match, 0 when there is none.
RECURSIVE FindFrom(_, _, _)
FindFrom(as, id, i) ==
  IF i > Len(as) THEN 0
  ELSE IF as[i].id = id THEN i
  ELSE FindFrom(as, id, i + 1)

Find(as, id) == FindFrom(as, id, 1)

\* The value of agents.find(...): the entity found, or undefined.
NotFound == [found |-> FALSE, tokenAddress |-> Undefined]

FindAgent(as, id) ==
  LET i == Find(as, id) IN
  IF i = 0 THEN NotFound ELSE [found |-> TRUE, tokenAddress |-> as[i].tokenAddress]

\* agent?.tokenAddress?.trim() ?? ''
TokenOf(as, id) ==
  LET i == Find(as, id) IN
  IF i = 0 THEN <<>>
  ELSE IF ~as[i].tokenAddress.present THEN <<>>
  ELSE Trim(as[i].tokenAddress.str)

abelTokenOf(as) == TokenOf(as, AGENT_ABEL_ID)

trinityTokenOf(as) == TokenOf(as, AGENT_TRINITY_ID)

\* Variant of Revealed: the entities are tested, not their trimmed addresses.
RevealedIfFound(as) ==
  Find(as, AGENT_ABEL_ID) # 0 \/ Find(as, AGENT_TRINITY_ID) # 0

\* Variant of Revealed: && in place of ||.
RevealedBoth(as) == Len(abelTokenOf(as)) > 0 /\ Len(trinityTokenOf(as)) > 0

\* abelToken.length > 0 || trinityToken.length > 0
Revealed(as) == Len(abelTokenOf(as)) > 0 \/ Len(trinityTokenOf(as)) > 0

\* ------------------------------------------------------------ swap sub-flow
\* The two slots of the Promise.all array, in array order.
Targets == {1, 2}

\* The suspension points of buyTokenWithJupiter; entering one issues the
\* network request of the same name.
AwaitPcs == {"quote", "build", "send", "blockhash", "confirm"}

NoRequests == [p \in AwaitPcs |-> 0]

\* A sub-flow that has not been invoked.
NoFlow ==
  [pc |-> "none", mint |-> Undefined, promise |-> "none", outcome |-> "none",
   last |-> "none"]

\* Variant of InvalidMint: the guard without the trim test.
InvalidMintNoTrim(mint) == ~mint.present \/ mint.str = <<>>

\* if (!mint || !mint.trim())
InvalidMint(mint) == ~mint.present \/ mint.str = <<>> \/ Trim(mint.str) = <<>>

\* Variant of buyTokenWithJupiter: no guard, every call requests a quote.
buyTokenWithJupiterUnguarded(mint) ==
  [pc |-> "quote", mint |-> mint, promise |-> "pending", outcome |-> "none",
   last |-> "none"]

\* The synchronous prefix of buyTokenWithJupiter(mint): the guard, else the
\* quote request.
buyTokenWithJupiter(mint) ==
  IF InvalidMint(mint)
  THEN [pc |-> "settled", mint |-> mint, promise |-> "fulfilled", outcome |-> "noop",
        last |-> "none"]
  ELSE [pc |-> "quote", mint |-> mint, promise |-> "pending", outcome |-> "none",
        last |-> "none"]

\* Variant of SwapFailed: the failure is logged but the promise of the call
\* is never settled.
SwapHangs(f) ==
  [f EXCEPT !.pc = "settled", !.promise = "pending", !.outcome = "failed"]

\* Variant of SwapFailed: the catch block logs and rethrows.
SwapRethrows(f) ==
  [f EXCEPT !.pc = "settled", !.promise = "rejected", !.outcome = "failed"]

\* catch (error) { console.error('Jupiter swap failed:', error) }
SwapFailed(f) ==
  [f EXCEPT !.pc = "settled", !.promise = "fulfilled", !.outcome = "failed"]

\* Confirmation results: value.err is null, undefined or an error object.
ConfErrs == {"null", "undefined", "error"}

\* Variant of handleTxConfirmation: === null in place of == null.
handleTxConfirmationStrict(err) ==
  IF err = "null" THEN "success" ELSE "txerror"

\* if (confirmation.value.err == null): the outcome logged, "throw" if the
\* function raised.
handleTxConfirmation(err) ==
  IF err \in {"null", "undefined"} THEN "success" ELSE "txerror"

\* What an awaited call of a sub-flow can settle with.
Responses(pc) ==
  CASE pc = "quote" -> {"reject", "absent", "error", "ok"}
    [] pc = "build" -> {"reject", "absent", "error", "noTx", "badTx", "ok"}
    [] pc = "send" -> {"reject", "ok"}
    [] pc = "blockhash" -> {"reject", "ok"}
    [] pc = "confirm" -> {"reject"} \cup ConfErrs
    [] OTHER -> {}

AllResponses == UNION {Responses(pc) : pc \in AwaitPcs}

\* Variant of Continue: line 110 tests only !quoteResponse, so a quote that
\* carries an error field goes on to the build request.
ContinueOnQuoteError(f, r) ==
  CASE f.pc = "quote" ->
         IF r \in {"ok", "error"} THEN [f EXCEPT !.pc = "build"] ELSE SwapFailed(f)
    [] f.pc = "build" ->
         IF r = "ok" THEN [f EXCEPT !.pc = "send"] ELSE SwapFailed(f)
    [] f.pc = "send" ->
         IF r = "ok" THEN [f EXCEPT !.pc = "blockhash"] ELSE SwapFailed(f)
    [] f.pc = "blockhash" ->
         IF r = "ok" THEN [f EXCEPT !.pc = "confirm"] ELSE SwapFailed(f)
    [] f.pc = "confirm" ->
         IF r = "reject" \/ handleTxConfirmation(r) = "throw" THEN SwapFailed(f)
         ELSE [f EXCEPT !.pc = "settled", !.promise = "fulfilled",
                        !.outcome = handleTxConfirmation(r)]
    [] OTHER -> f

\* Variant of Continue: a rejected submission is sent again.
ContinueResends(f, r) ==
  CASE f.pc = "quote" ->
         IF r = "ok" THEN [f EXCEPT !.pc = "build"] ELSE SwapFailed(f)
    [] f.pc = "build" ->
         IF r = "ok" THEN [f EXCEPT !.pc = "send"] ELSE SwapFailed(f)
    [] f.pc = "send" ->
         IF r = "ok" THEN [f EXCEPT !.pc = "blockhash"] ELSE [f EXCEPT !.pc = "send"]
    [] f.pc = "blockhash" ->
         IF r = "ok" THEN [f EXCEPT !.pc = "confirm"] ELSE SwapFailed(f)
    [] f.pc = "confirm" ->
         IF r = "reject" \/ handleTxConfirmation(r) = "throw" THEN SwapFailed(f)
         ELSE [f EXCEPT !.pc = "settled", !.promise = "fulfilled",
                        !.outcome = handleTxConfirmation(r)]
    [] OTHER -> f

\* The continuation of a sub-flow after its awaited call settled with r, the
\* body of the try block from that await on.
Continue(f, r) ==
  CASE f.pc = "quote" ->
         IF r = "ok" THEN [f EXCEPT !.pc = "build"] ELSE SwapFailed(f)
    [] f.pc = "build" ->
         IF r = "ok" THEN [f EXCEPT !.pc = "send"] ELSE SwapFailed(f)
    [] f.pc = "send" ->
         IF r = "ok" THEN [f EXCEPT !.pc = "blockhash"] ELSE SwapFailed(f)
    [] f.pc = "blockhash" ->
         IF r = "ok" THEN [f EXCEPT !.pc = "confirm"] ELSE SwapFailed(f)
    [] f.pc = "confirm" ->
         IF r = "reject" \/ handleTxConfirmation(r) = "throw" THEN SwapFailed(f)
         ELSE [f EXCEPT !.pc = "settled", !.promise = "fulfilled",
                        !.outcome = handleTxConfirmation(r)]
    [] OTHER -> f

\* Continue, with the value the awaited call settled with kept in the frame.
Resume(f, r) == [Continue(f, r) EXCEPT !.last = r]

\* The request counters after a sub-flow moved to record f.
Issue(rq, f) ==
  IF f.pc \in AwaitPcs THEN [rq EXCEPT ![f.pc] = @ + 1] ELSE rq

\* --------------------------------------------------------------- the state
VARIABLES
  privateKeySet,  \* process.env.PRIVATE_KEY is a non-empty string
  main,           \* module top level: "boot", "running", "exited"
  exitCode,       \* <<status>> once process.exit(status) ran, <<>> before
  done,           \* let done
  timers,         \* pending setTimeout callbacks: their delays, in order
  fetchInFlight,  \* ticks suspended at await fetch(SPORE_API_URL)
  jsonInFlight,   \* ticks suspended at await resp.json()
  joinWaiting,    \* ticks suspended at await Promise.all([...])
  body,           \* the response body that resp.json() is parsing
  abel,           \* const abel in the frame of the latest call of
                  \* pollSporeApi; NotFound until line 186 assigns it
  trinity,        \* const trinity, likewise (line 187)
  flow,           \* the sub-flow of each slot of the Promise.all array
  reqs,           \* network requests issued for each slot, by kind
  calls,          \* invocations of buyTokenWithJupiter for each slot
  execCount       \* times the fan-out at line 198 was entered

vars == <<privateKeySet, main, exitCode, done, timers, fetchInFlight, jsonInFlight,
          joinWaiting, body, abel, trinity, flow, reqs, calls, execCount>>

swapVars == <<flow, reqs, calls, execCount>>

Init ==
  /\ privateKeySet \in BOOLEAN
  /\ main = "boot"
  /\ exitCode = <<>>
  /\ done = FALSE
  /\ timers = <<>>
  /\ fetchInFlight = 0
  /\ jsonInFlight = 0
  /\ joinWaiting = 0
  /\ body = NoBody
  /\ abel = NotFound
  /\ trinity = NotFound
  /\ flow = [t \in Targets |-> NoFlow]
  /\ reqs = [t \in Targets |-> NoRequests]
  /\ calls = [t \in Targets |-> 0]
  /\ execCount = 0

\* ------------------------------------------------------------- the poller
\* setTimeout(pollSporeApi, POLL_INTERVAL_MS)
Reschedule(q) == Append(q, POLL_INTERVAL_MS)

\* Variant of pollSporeApi: the next tick is scheduled when the fetch starts
\* (as setInterval would) instead of after it settled.
pollSporeApiEager(q) ==
  /\ timers' = IF done THEN q ELSE Append(q, POLL_INTERVAL_MS)
  /\ abel' = NotFound
  /\ trinity' = NotFound
  /\ fetchInFlight' = IF done THEN fetchInFlight ELSE fetchInFlight + 1

\* A call of pollSporeApi up to its first await, with q the timer queue at
\* the call: a new frame, the latch guard, else the feed request.
pollSporeApi(q) ==
  /\ timers' = q
  /\ abel' = NotFound
  /\ trinity' = NotFound
  /\ fetchInFlight' = IF done THEN fetchInFlight ELSE fetchInFlight + 1

\* Variant of Boot: no private key check before the first call.
BootUnchecked ==
  /\ main = "boot"
  /\ main' = "running"
  /\ pollSporeApi(timers)
  /\ UNCHANGED <<privateKeySet, exitCode, done, jsonInFlight, joinWaiting, body>>
  /\ UNCHANGED swapVars

\* Module top level: the private key check, then the first call.
Boot ==
  /\ main = "boot"
  /\ IF ~privateKeySet
     THEN /\ main' = "exited"
          /\ exitCode' = <<1>>
          /\ UNCHANGED <<timers, fetchInFlight, abel, trinity>>
     ELSE /\ main' = "running"
          /\ pollSporeApi(timers)
          /\ UNCHANGED exitCode
  /\ UNCHANGED <<privateKeySet, done, jsonInFlight, joinWaiting, body>>
  /\ UNCHANGED swapVars

\* A timer set by setTimeout expires and calls pollSporeApi.
TimerFire ==
  /\ main = "running"
  /\ timers # <<>>
  /\ pollSporeApi(Tail(timers))
  /\ UNCHANGED <<privateKeySet, exitCode, main, done, jsonInFlight, joinWaiting, body>>
  /\ UNCHANGED swapVars

\* Variant of FetchFail: the catch block returns without setting the timer.
FetchFailStops ==
  /\ fetchInFlight > 0
  /\ fetchInFlight' = fetchInFlight - 1
  /\ UNCHANGED <<privateKeySet, exitCode, main, done, timers, jsonInFlight, joinWaiting, body, abel, trinity>>
  /\ UNCHANGED swapVars

\* await fetch(SPORE_API_URL) rejects: the catch block, then the timer.
FetchFail ==
  /\ fetchInFlight > 0
  /\ fetchInFlight' = fetchInFlight - 1
  /\ timers' = Reschedule(timers)
  /\ UNCHANGED <<privateKeySet, exitCode, main, done, jsonInFlight, joinWaiting, body, abel, trinity>>
  /\ UNCHANGED swapVars

\* await fetch(SPORE_API_URL) resolves with a response carrying body b:
\* resp.json() is started on it.
FetchOk ==
  /\ fetchInFlight > 0
  /\ fetchInFlight' = fetchInFlight - 1
  /\ jsonInFlight' = jsonInFlight + 1
  /\ \E b \in Bodies : body' = b
  /\ UNCHANGED <<privateKeySet, exitCode, main, done, timers, joinWaiting, abel, trinity>>
  /\ UNCHANGED swapVars

\* Variant of ParseFail: the catch block returns without setting the timer.
ParseFailStops ==
  /\ jsonInFlight > 0
  /\ body.kind = "malformed"
  /\ jsonInFlight' = jsonInFlight - 1
  /\ body' = NoBody
  /\ UNCHANGED <<privateKeySet, exitCode, main, done, timers, fetchInFlight, joinWaiting, abel, trinity>>
  /\ UNCHANGED swapVars

\* await resp.json() rejects, or the parsed value has not the shape lines
\* 185-190 read (a TypeError): the catch block, then the timer.
ParseFail ==
  /\ jsonInFlight > 0
  /\ body.kind = "malformed"
  /\ jsonInFlight' = jsonInFlight - 1
  /\ body' = NoBody
  /\ timers' = Reschedule(timers)
  /\ UNCHANGED <<privateKeySet, exitCode, main, done, fetchInFlight, joinWaiting, abel, trinity>>
  /\ UNCHANGED swapVars

\* The fan-out of line 198: both calls run their synchronous prefix, in
\* array order, before the await.
FanOut(abelToken, trinityToken) ==
  /\ flow' = [t \in Targets |->
                buyTokenWithJupiter(Some(IF t = 1 THEN abelToken ELSE trinityToken))]
  /\ reqs' = [t \in Targets |-> Issue(reqs[t], flow'[t])]
  /\ calls' = [t \in Targets |-> calls[t] + 1]
  /\ execCount' = execCount + 1

\* Variant of Parsed: the latch is not set before the fan-out.
ParsedLatchLate(as) ==
  /\ jsonInFlight > 0
  /\ jsonInFlight' = jsonInFlight - 1
  /\ body' = NoBody
  /\ abel' = FindAgent(as, AGENT_ABEL_ID)
  /\ trinity' = FindAgent(as, AGENT_TRINITY_ID)
  /\ IF Revealed(as)
     THEN /\ FanOut(abelTokenOf(as), trinityTokenOf(as))
          /\ joinWaiting' = joinWaiting + 1
          /\ UNCHANGED <<done, timers>>
     ELSE /\ timers' = Reschedule(timers)
          /\ UNCHANGED <<done, joinWaiting>>
          /\ UNCHANGED swapVars
  /\ UNCHANGED <<privateKeySet, exitCode, main, fetchInFlight>>

\* await resp.json() resolves with a well-formed response whose agent list
\* is as: lines 185-200, or 185-193 and 206.
Parsed(as) ==
  /\ jsonInFlight > 0
  /\ jsonInFlight' = jsonInFlight - 1
  /\ body' = NoBody
  /\ abel' = FindAgent(as, AGENT_ABEL_ID)
  /\ trinity' = FindAgent(as, AGENT_TRINITY_ID)
  /\ IF Revealed(as)
     THEN /\ done' = TRUE
          /\ FanOut(abelTokenOf(as), trinityTokenOf(as))
          /\ joinWaiting' = joinWaiting + 1
          /\ UNCHANGED timers
     ELSE /\ timers' = Reschedule(timers)
          /\ UNCHANGED <<done, joinWaiting>>
          /\ UNCHANGED swapVars
  /\ UNCHANGED <<privateKeySet, exitCode, main, fetchInFlight>>

\* await resp.json() resolves with the agent list of a well-formed body.
ParseOk ==
  /\ jsonInFlight > 0
  /\ body.kind = "json"
  /\ Parsed(body.agents)

\* Variant of FlowStep: a sub-flow that fails aborts its pending sibling.
FlowStepFailFast(t, r) ==
  /\ flow[t].pc \in AwaitPcs
  /\ r \in Responses(flow[t].pc)
  /\ flow' = [u \in Targets |->
                IF u = t THEN Resume(flow[t], r)
                ELSE IF Resume(flow[t], r).outcome = "failed" /\ flow[u].pc \in AwaitPcs
                     THEN SwapFailed(flow[u])
                     ELSE flow[u]]
  /\ reqs' = [reqs EXCEPT ![t] = Issue(reqs[t], flow'[t])]
  /\ UNCHANGED <<privateKeySet, exitCode, main, done, timers, fetchInFlight, jsonInFlight,
                 joinWaiting, body, abel, trinity, calls, execCount>>

\* An awaited call of sub-flow t settles with r and the sub-flow runs to its
\* next await or to its end.
FlowStep(t, r) ==
  /\ flow[t].pc \in AwaitPcs
  /\ r \in Responses(flow[t].pc)
  /\ flow' = [flow EXCEPT ![t] = Resume(flow[t], r)]
  /\ reqs' = [reqs EXCEPT ![t] = Issue(reqs[t], flow'[t])]
  /\ UNCHANGED <<privateKeySet, exitCode, main, done, timers, fetchInFlight, jsonInFlight,
                 joinWaiting, body, abel, trinity, calls, execCount>>

\* Variant of PromiseAll: Promise.race in its place.
PromiseRace(fl) ==
  IF \E t \in Targets : fl[t].promise = "rejected" THEN "rejected"
  ELSE IF \E t \in Targets : fl[t].promise = "fulfilled" THEN "fulfilled"
  ELSE "pending"

\* Promise.all: rejected as soon as one element is rejected, fulfilled when
\* every element is fulfilled, pending otherwise.
PromiseAll(fl) ==
  IF \E t \in Targets : fl[t].promise = "rejected" THEN "rejected"
  ELSE IF \A t \in Targets : fl[t].promise = "fulfilled" THEN "fulfilled"
  ELSE "pending"

\* Variant of JoinSettle: the latch is released once the swaps are over.
JoinSettleReset ==
  /\ joinWaiting > 0
  /\ PromiseAll(flow) # "pending"
  /\ joinWaiting' = joinWaiting - 1
  /\ done' = FALSE
  /\ timers' = IF PromiseAll(flow) = "rejected" THEN Reschedule(timers) ELSE timers
  /\ UNCHANGED <<privateKeySet, exitCode, main, fetchInFlight, jsonInFlight, body, abel, trinity>>
  /\ UNCHANGED swapVars

\* Variant of JoinSettle: line 199 lacks its `return` and falls through to the
\* timer.
JoinSettleFallThrough ==
  /\ joinWaiting > 0
  /\ PromiseAll(flow) # "pending"
  /\ joinWaiting' = joinWaiting - 1
  /\ timers' = Reschedule(timers)
  /\ UNCHANGED <<privateKeySet, exitCode, main, done, fetchInFlight, jsonInFlight, body, abel, trinity>>
  /\ UNCHANGED swapVars

\* await Promise.all([...]) settles: `return` at line 199 when fulfilled, the
\* catch block and the timer when rejected.
JoinSettle ==
  /\ joinWaiting > 0
  /\ PromiseAll(flow) # "pending"
  /\ joinWaiting' = joinWaiting - 1
  /\ timers' = IF PromiseAll(flow) = "rejected" THEN Reschedule(timers) ELSE timers
  /\ UNCHANGED <<privateKeySet, exitCode, main, done, fetchInFlight, jsonInFlight, body, abel, trinity>>
  /\ UNCHANGED swapVars

Next ==
  \/ Boot
  \/ TimerFire
  \/ FetchFail
  \/ FetchOk
  \/ ParseFail
  \/ ParseOk
  \/ \E t \in Targets : \E r \in AllResponses : FlowStep(t, r)
  \/ JoinSettle

Spec == Init /\ [][Next]_vars

\* The event loop runs every job that is ready, and every external call
\* (feed fetch, body parse, quote, build, submission, block hash,
\* confirmation) eventually returns or throws.
Fairness ==
  /\ WF_vars(Boot)
  /\ WF_vars(TimerFire)
  /\ WF_vars(FetchFail \/ FetchOk)
  /\ WF_vars(ParseFail \/ ParseOk)
  /\ \A t \in Targets : WF_vars(\E r \in AllResponses : FlowStep(t, r))
  /\ WF_vars(JoinSettle)

LiveSpec == Spec /\ Fairness

\* ------------------------------------------- the swap executor on its own
\* buyTokenWithJupiter called directly with any optional string, one call
\* per slot, and then left to run.
BuyCall(t, mint) ==
  /\ flow[t].pc = "none"
  /\ flow' = [flow EXCEPT ![t] = buyTokenWithJupiter(mint)]
  /\ reqs' = [reqs EXCEPT ![t] = Issue(reqs[t], flow'[t])]
  /\ calls' = [calls EXCEPT ![t] = @ + 1]
  /\ UNCHANGED <<privateKeySet, exitCode, main, done, timers, fetchInFlight, jsonInFlight,
                 joinWaiting, body, abel, trinity, execCount>>

InitBuy ==
  /\ privateKeySet = TRUE
  /\ main = "running"
  /\ exitCode = <<>>
  /\ done = FALSE
  /\ timers = <<>>
  /\ fetchInFlight = 0
  /\ jsonInFlight = 0
  /\ joinWaiting = 0
  /\ body = NoBody
  /\ abel = NotFound
  /\ trinity = NotFound
  /\ flow = [t \in Targets |-> NoFlow]
  /\ reqs = [t \in Targets |-> NoRequests]
  /\ calls = [t \in Targets |-> 0]
  /\ execCount = 0

NextBuy ==
  \/ \E t \in Targets : \E mint \in OptStrings : BuyCall(t, mint)
  \/ \E t \in Targets : \E r \in AllResponses : FlowStep(t, r)

SpecBuy == InitBuy /\ [][NextBuy]_vars

\* ---------------------------------------------------- vocabulary of claims
\* The id of the target handled by slot t of the fan-out.
TargetId(t) == IF t = 1 THEN AGENT_ABEL_ID ELSE AGENT_TRINITY_ID

\* s has a character that is not white space.
NonBlank(s) == \E k \in 1..Len(s) : s[k] # " "

\* s without its leading and trailing white space, by position.
Stripped(s) ==
  IF ~NonBlank(s) THEN <<>>
  ELSE LET ks == {k \in 1..Len(s) : s[k] # " "}
           lo == CHOOSE k \in ks : \A j \in ks : k <= j
           hi == CHOOSE k \in ks : \A j \in ks : k >= j
       IN  [i \in 1..(hi - lo + 1) |-> s[lo + i - 1]]

\* Entity i of as carries id and a tokenAddress that is present and not blank.
RevealingEntity(as, i, id) ==
  /\ as[i].id = id
  /\ as[i].tokenAddress.present
  /\ NonBlank(as[i].tokenAddress.str)

\* Some entity of as reveals one of the two targets.
SomeEntityReveals(as) ==
  \E t \in Targets : \E i \in 1..Len(as) : RevealingEntity(as, i, TargetId(t))

\* The first entity of as with the id of one of the two targets reveals it.
FirstEntityReveals(as) ==
  \E t \in Targets : \E i \in 1..Len(as) :
    /\ RevealingEntity(as, i, TargetId(t))
    /\ \A j \in 1..(i - 1) : as[j].id # TargetId(t)

\* The address the first entity of as with this id reveals, "" when none.
RevealedAddress(as, id) ==
  LET is == {i \in 1..Len(as) : as[i].id = id} IN
  IF is = {} THEN <<>>
  ELSE LET i == CHOOSE k \in is : \A j \in is : k <= j IN
       IF as[i].tokenAddress.present THEN Stripped(as[i].tokenAddress.str) ELSE <<>>

\* A step in which a tick leaves await resp.json() with a parsed snapshot
\* while the latch is false.
ParseStep == jsonInFlight' = jsonInFlight - 1 /\ body.kind = "json" /\ ~done

\* The trimmed tokenAddress of a found entity, "" when there is none.
AddressOf(found) ==
  IF found.found /\ found.tokenAddress.present
  THEN Stripped(found.tokenAddress.str) ELSE <<>>

\* The local of pollSporeApi that holds the entity of slot t.
FoundFor(t) == IF t = 1 THEN abel ELSE trinity

\* A step in which the latch is set and the execution phase is entered.
DetectStep == ~done /\ done' /\ execCount' = execCount + 1

\* A step in which a feed fetch or parse fails: the fetch leaves flight
\* without a body to parse, or the parse of a malformed body leaves flight.
FeedFailStep ==
  \/ fetchInFlight' = fetchInFlight - 1 /\ jsonInFlight' = jsonInFlight
  \/ jsonInFlight' = jsonInFlight - 1 /\ body.kind = "malformed"

\* ------------------------------------------------------------------ claims
\* C1: the execution phase is entered at most once per process lifetime, and
\* buyTokenWithJupiter is invoked at most once for each of the two targets.
C1_ExecutionAtMostOnce ==
  execCount <= 1 /\ \A t \in Targets : calls[t] <= 1

\* The execution phase was entered and is over.
C1_Witness ==
  execCount = 1 /\ done /\ joinWaiting = 0 /\ \A t \in Targets : calls[t] = 1

\* C2: the latch done starts false, and once it is true it is true in every
\* later state: no step resets it.
C2_LatchMonotonic == ~done /\ [][done => done']_vars

\* The latch is set, a swap has failed and the join has returned.
C2_Witness ==
  done /\ joinWaiting = 0 /\ execCount = 1 /\ \E t \in Targets : flow[t].outcome = "failed"

\* C3: at most one snapshot fetch (request or body) is in flight, and a timer
\* for the next tick is pending only when none is.
C3_SingleFlight ==
  /\ fetchInFlight + jsonInFlight <= 1
  /\ timers # <<>> => fetchInFlight + jsonInFlight = 0
  /\ Len(timers) <= 1

\* A tick has settled without detection and the next one is scheduled.
C3_Witness ==
  timers = <<POLL_INTERVAL_MS>> /\ fetchInFlight = 0 /\ jsonInFlight = 0 /\ abel.found /\ ~done

\* C4 as stated: on a tick whose snapshot is parsed while the latch is false,
\* the latch is set and the execution phase entered iff at least one target
\* has some matching entity whose tokenAddress is not blank.
C4_DetectIffSomeEntityReveals ==
  [][ParseStep => (DetectStep <=> SomeEntityReveals(body.agents))]_vars

\* C4 as amended: ... iff for at least one target the first entity of the
\* snapshot with that target's id has a tokenAddress that is not blank.
C4_DetectIffFirstEntityReveals ==
  [][ParseStep => (DetectStep <=> FirstEntityReveals(body.agents))]_vars

\* Detection from one target only, whose tokenAddress needed trimming.
C4_Witness ==
  /\ done /\ execCount = 1
  /\ trinity.found /\ trinity.tokenAddress.present
  /\ trinity.tokenAddress.str # Stripped(trinity.tokenAddress.str)
  /\ ~abel.found

\* C5: in the execution phase slot 1 is handed the trimmed tokenAddress of the
\* id 6 entity and slot 2 that of the id 7 entity, whatever the order of the
\* entities in the snapshot.
C5_HandedTrimmedInTargetOrder ==
  /\ [][DetectStep =>
          \A t \in Targets :
            flow'[t].mint = Some(RevealedAddress(body.agents, TargetId(t)))]_vars
  /\ [](execCount > 0 =>
          \A t \in Targets : flow[t].mint = Some(AddressOf(FoundFor(t))))

\* The id 6 tokenAddress has leading and the id 7 tokenAddress trailing white
\* space, and both were handed over trimmed.
C5_Witness ==
  /\ execCount = 1
  /\ abel.tokenAddress = Some(<<" ", "A">>)
  /\ trinity.tokenAddress = Some(<<"A", " ">>)
  /\ flow[1].mint = Some(<<"A">>)
  /\ flow[2].mint = Some(<<"A">>)

\* C6: once the latch is set no snapshot fetch is in flight or issued and no
\* tick is scheduled, whatever the swap outcomes.
C6_DoneIsTerminal ==
  /\ [](done => (fetchInFlight = 0 /\ jsonInFlight = 0 /\ timers = <<>>))
  /\ [][done => (fetchInFlight' = fetchInFlight /\ timers' = timers)]_vars

\* The phase is over with one swap failed and one succeeded.
C6_Witness ==
  /\ done /\ joinWaiting = 0
  /\ flow[1].outcome = "failed" /\ flow[2].outcome = "success"

\* C7: a step of one sub-flow leaves the other sub-flow as it was, and a
\* sub-flow that awaits a call can take every settlement of that call
\* whatever the state of the other.
C7_SubFlowsIndependent ==
  /\ [](\A t \in Targets : flow[t].pc \in AwaitPcs =>
          \A r \in Responses(flow[t].pc) : ENABLED FlowStep(t, r))
  /\ [][\A t \in Targets : flow'[t] # flow[t] /\ execCount' = execCount =>
          \A u \in Targets \ {t} : flow'[u] = flow[u]]_vars

\* The first sub-flow failed at the build step, the second ran to success.
C7_Witness ==
  /\ flow[1].outcome = "failed" /\ reqs[1]["build"] = 1 /\ reqs[1]["send"] = 0
  /\ flow[2].outcome = "success" /\ reqs[2]["confirm"] = 1
  /\ execCount = 1

\* C8: the tick does not return from the fan-out while a sub-flow is
\* unsettled.
C8_JoinWaitsForAll ==
  (execCount > 0 /\ joinWaiting = 0) => \A t \in Targets : flow[t].pc = "settled"

\* One sub-flow has failed, the other is in flight and the join still waits.
C8_Witness ==
  /\ joinWaiting = 1
  /\ flow[1].outcome = "failed"
  /\ flow[2].pc \in AwaitPcs

\* C9: a call of buyTokenWithJupiter with an absent, empty or blank address
\* issues no network request and settles normally as a no-op.
C9_NoOpGuard ==
  \A t \in Targets :
    (calls[t] > 0 /\ (~flow[t].mint.present \/ ~NonBlank(flow[t].mint.str))) =>
      /\ reqs[t] = NoRequests
      /\ flow[t].pc = "settled"
      /\ flow[t].promise = "fulfilled"
      /\ flow[t].outcome = "noop"

\* One call with an absent address and one with a blank one.
C9_Witness ==
  /\ calls[1] = 1 /\ flow[1].mint = Undefined
  /\ calls[2] = 1 /\ flow[2].mint = Some(<<" ", " ">>)

\* C10: a feed fetch or parse failure leaves the latch false and the swap
\* state untouched, keeps the process running and schedules one tick after
\* POLL_INTERVAL_MS.
C10_FeedFailureNonFatal ==
  [][FeedFailStep =>
       /\ ~done /\ ~done'
       /\ UNCHANGED <<flow, reqs, calls, execCount>>
       /\ main' = "running"
       /\ timers' = Append(timers, POLL_INTERVAL_MS)
       /\ \A i \in 1..Len(timers') : timers'[i] = 100]_vars

\* A tick failed and the next is scheduled after the fixed delay.
C10_Witness ==
  /\ main = "running" /\ ~done /\ ~abel.found /\ ~trinity.found /\ body = NoBody
  /\ timers = <<100>> /\ fetchInFlight = 0 /\ jsonInFlight = 0

\* C11: a tick whose snapshot is parsed and reveals no target leaves the latch
\* false and the swap state untouched (no request), and sets exactly one
\* timer of POLL_INTERVAL_MS.
C11_NoRevealReschedules ==
  [][(ParseStep /\ ~FirstEntityReveals(body.agents)) =>
       /\ ~done'
       /\ UNCHANGED <<flow, reqs, calls, execCount>>
       /\ timers' = Append(timers, POLL_INTERVAL_MS)
       /\ Len(timers') = 1]_vars

\* Both targets are in the snapshot, one with a blank and one with no
\* tokenAddress; the next tick is scheduled and nothing was bought.
C11_Witness ==
  /\ ~done /\ timers = <<POLL_INTERVAL_MS>>
  /\ abel.found /\ abel.tokenAddress = Some(<<" ", " ">>)
  /\ trinity.found /\ ~trinity.tokenAddress.present
  /\ \A t \in Targets : calls[t] = 0 /\ reqs[t] = NoRequests

\* C12: no failure of a sub-flow rejects its promise, so the join never
\* rejects, the tick leaves the join without the catch block and without a
\* timer, and no fetch follows.
C12_SwapFailuresCaught ==
  /\ [](\A t \in Targets : flow[t].promise # "rejected")
  /\ [](PromiseAll(flow) # "rejected")
  /\ [][joinWaiting' < joinWaiting =>
          (timers' = timers /\ fetchInFlight' = fetchInFlight)]_vars
  /\ [][(\E t \in Targets : flow'[t].outcome = "failed" /\ flow[t].outcome # "failed") =>
          (timers' = timers /\ fetchInFlight' = fetchInFlight /\ done')]_vars

\* One sub-flow failed on a quote error, the other on a payload that does not
\* deserialize; the tick has returned and no timer is set.
C12_Witness ==
  /\ flow[1].outcome = "failed" /\ flow[1].last = "error" /\ reqs[1]["build"] = 0
  /\ flow[2].outcome = "failed" /\ flow[2].last = "badTx" /\ reqs[2]["send"] = 0
  /\ joinWaiting = 0 /\ timers = <<>> /\ execCount = 1

\* Sub-flow t got a confirmation result (confirmTransaction did not reject).
Confirmed(t) ==
  flow[t].pc = "settled" /\ reqs[t]["confirm"] > 0 /\ flow[t].last \in ConfErrs

\* C13: a confirmation result with a null or absent err yields the success
\* outcome, one with an err the failure outcome, and neither raises (the
\* sub-flow does not end in its catch block).
C13_ConfirmationTotal ==
  \A t \in Targets : Confirmed(t) =>
    /\ flow[t].last \in {"null", "undefined"} => flow[t].outcome = "success"
    /\ flow[t].last = "error" => flow[t].outcome = "txerror"
    /\ flow[t].outcome # "failed"
    /\ flow[t].promise = "fulfilled"

\* One confirmation with an absent err, one with an err.
C13_Witness ==
  /\ Confirmed(1) /\ flow[1].last = "undefined" /\ flow[1].outcome = "success"
  /\ Confirmed(2) /\ flow[2].last = "error" /\ flow[2].outcome = "txerror"

\* C14: with no private key the process exits with a non-zero status before
\* polling: it never runs, no fetch is issued, no timer set, no swap request
\* issued.
C14_NoKeyExitsBeforePolling ==
  /\ ~privateKeySet =>
       /\ main \in {"boot", "exited"}
       /\ fetchInFlight = 0 /\ jsonInFlight = 0 /\ timers = <<>>
       /\ \A t \in Targets : calls[t] = 0 /\ reqs[t] = NoRequests
  /\ main = "exited" => (~privateKeySet /\ Len(exitCode) = 1 /\ exitCode[1] # 0)
  /\ main # "exited" => exitCode = <<>>

\* The process has exited for want of a private key.
C14_Witness == ~privateKeySet /\ main = "exited" /\ exitCode = <<1>>

\* Both sub-flows have settled and the tick has returned from the join.
PhaseDone == done /\ joinWaiting = 0 /\ \A t \in Targets : flow[t].pc = "settled"

\* C15: once detection has occurred, and every external call eventually
\* returns or throws, the phase reaches Done whatever the sub-flow outcomes,
\* also when only one target was revealed.
C15_DetectionLeadsToDone == done ~> PhaseDone

\* Partial reveal: the revealed target ran the full sequence, the other call
\* was a no-op, and the phase is Done.
C15_Witness ==
  /\ PhaseDone
  /\ flow[1].outcome = "success" /\ reqs[1]["confirm"] = 1
  /\ flow[2].outcome = "noop" /\ flow[2].mint = Some(<<>>)

\* Request p is issued for slot t in this step.
Issued(t, p) == reqs'[t][p] = reqs[t][p] + 1

\* C16: within a sub-flow the build request is issued only on a quote that
\* came back without error, the submission only on a build response with a
\* payload that deserialized, the block hash and the confirmation only after
\* the call before them returned, and a confirmation is interpreted only
\* after the submission returned a signature.
C16_StepsInOrder ==
  /\ [][\A t \in Targets :
          /\ Issued(t, "quote") => flow[t].pc \notin AwaitPcs
          /\ Issued(t, "build") => (flow[t].pc = "quote" /\ flow'[t].last = "ok")
          /\ Issued(t, "send") => (flow[t].pc = "build" /\ flow'[t].last = "ok")
          /\ Issued(t, "blockhash") => (flow[t].pc = "send" /\ flow'[t].last = "ok")
          /\ Issued(t, "confirm") => (flow[t].pc = "blockhash" /\ flow'[t].last = "ok")]_vars
  /\ [](\A t \in Targets :
          /\ reqs[t]["confirm"] <= reqs[t]["blockhash"]
          /\ reqs[t]["blockhash"] <= reqs[t]["send"]
          /\ reqs[t]["send"] <= reqs[t]["build"]
          /\ reqs[t]["build"] <= reqs[t]["quote"]
          /\ flow[t].outcome \in {"success", "txerror"} =>
                (reqs[t]["send"] = 1 /\ reqs[t]["confirm"] = 1))

\* One sub-flow went through all five steps; the quote of the other carried
\* an error field and nothing was requested after it.
C16_Witness ==
  /\ flow[1].outcome = "success" /\ \A p \in AwaitPcs : reqs[1][p] = 1
  /\ flow[2].outcome = "failed" /\ flow[2].last = "error"
  /\ reqs[2]["quote"] = 1 /\ reqs[2]["build"] = 0

\* C17: for each target at most one request of each kind (quote, build,
\* submission, block hash, confirmation) is ever issued, whatever step fails.
C17_NoRetry ==
  \A t \in Targets : \A p \in AwaitPcs : reqs[t][p] <= 1

\* One sub-flow failed at the submission, the other at the confirmation, and
\* the phase is over.
C17_Witness ==
  /\ PhaseDone
  /\ flow[1].outcome = "failed" /\ reqs[1]["send"] = 1 /\ reqs[1]["blockhash"] = 0
  /\ flow[2].outcome = "failed" /\ reqs[2]["confirm"] = 1

\* C18: whenever a swap request has been issued or a sub-flow is in flight
\* the latch is true, and the step that sets the latch also starts both
\* sub-flows.
C18_LatchBeforeFanOut ==
  /\ [](\A t \in Targets :
          (calls[t] > 0 \/ reqs[t] # NoRequests \/ flow[t].pc \in AwaitPcs) => done)
  /\ [][(~done /\ done') =>
          \A t \in Targets : calls'[t] = calls[t] + 1 /\ flow'[t].pc # "none"]_vars

\* Right after the fan-out: the latch is set and both quotes are in flight.
C18_Witness ==
  /\ done /\ joinWaiting = 1
  /\ \A t \in Targets : flow[t].pc = "quote" /\ reqs[t]["quote"] = 1

\* The ticks in flight or scheduled.
PendingTicks == fetchInFlight + jsonInFlight + Len(timers)

\* C19: while the process runs with the latch false exactly one tick is in
\* flight or scheduled (no tick pending implies the latch is true), and if
\* the latch stays false the feed is fetched again and again.
C19_PollingNeverStalls ==
  /\ []((main = "running" /\ ~done) => PendingTicks = 1)
  /\ (privateKeySet /\ [](~done)) => []<>(fetchInFlight > 0)

\* A tick that found only an unrevealed id 7 entity has settled and the next
\* one is scheduled.
C19_Witness ==
  /\ main = "running" /\ ~done /\ timers # <<>>
  /\ trinity.found /\ ~abel.found

\* C20: a target that was not revealed at the detecting tick never gets a
\* swap request: its call was a no-op, and with the latch set no snapshot
\* is fetched again.
C20_PartialRevealFinal ==
  /\ \A t \in Targets :
       (execCount > 0 /\ AddressOf(FoundFor(t)) = <<>>) =>
         (reqs[t] = NoRequests /\ flow[t].outcome = "noop" /\ calls[t] = 1)
  /\ execCount > 0 => (fetchInFlight = 0 /\ jsonInFlight = 0 /\ timers = <<>>)

\* Only id 7 was revealed (id 6 was there with a blank tokenAddress): its
\* swap succeeded, nothing was requested for id 6 and the phase is over.
C20_Witness ==
  /\ PhaseDone
  /\ abel.found /\ abel.tokenAddress = Some(<<" ">>)
  /\ flow[1].outcome = "noop" /\ reqs[1] = NoRequests
  /\ flow[2].outcome = "success"

====
